---- MODULE Spec2Model ----
(***************************************************************************)
(* A model of the tensor-to-video endpoint of the robot data visualizer    *)
(* (src/src/app/api/video/route.ts): the POST handler, fetchTensorData,    *)
(* generateMockTensorData and convertTensorToVideo, with the filesystem    *)
(* staging area they share and the external encoder process.               *)
(*                                                                         *)
(* Specifications:                                                         *)
(*   Spec       requests served one after another (no overlap)             *)
(*   PixelSpec  the staging of one frame (header, clamp-and-pack, write)   *)
(*   NameSpec   the staged file names of two frame positions               *)
(*   RepeatSpec one payload converted twice, one run after the other       *)
(*   MockSpec   generateMockTensorData called twice                        *)
(*   ConcSpec   two requests in progress at once                           *)
(*   LoopSpec   the per-pixel loop, one iteration per step                 *)
(***************************************************************************)
EXTENDS Integers, Sequences, FiniteSets, TLC

VARIABLES
    fs,             \* the staging area: path -> file
    tempDirExists,  \* whether <cwd>/temp_frames is a directory
    pc,             \* per request: where its task is suspended
    body,           \* per request: what request.json() yields
    tensorData,     \* per request: the payload being converted
    call,           \* per request: the progress of convertTensorToVideo
    response,       \* per request: the response POST returned
    faults,         \* deletion failures injected so far
    px,             \* PixelSpec: the frame being staged and what was written
    nm,             \* NameSpec: two frame positions and their file names
    mk,             \* MockSpec: two calls of generateMockTensorData
    lp,             \* LoopSpec: the per-pixel loop of one frame, step by step
    ui              \* DashSpec: the dashboard's playback state (page.tsx)

mainVars == <<fs, tempDirExists, pc, body, tensorData, call, response, faults>>
vars == <<fs, tempDirExists, pc, body, tensorData, call, response, faults, px, nm, mk, lp, ui>>

-----------------------------------------------------------------------------
(* Bounds of the model. *)

\* Samples are multiples of 1/Denominator, so that Math.floor has work to do.
Denominator == 2
\* Longest tensor_data of PixelSpec.
MaxLen == 3
\* Largest width and channel stride of PixelSpec.
MaxDim == 2
MaxChannels == 3
\* Longest frames array of a fetched payload.
MaxFrames == 2
\* The placeholder payload's 60 frames of 320 x 240 samples, scaled down.
MockFrames == 2
MockWidth == 2
MockHeight == 1
\* Latest reading of the wall clock, in milliseconds.
MaxClock == 1
\* Deletions that fail over a whole run.
MaxFaults == 1
\* Calls of generateMockTensorData in MockSpec.
MaxCalls == 2

-----------------------------------------------------------------------------
(* Program constants. *)

\* padStart(6, '0')
PadWidth == 6
\* frameIndex * 33
FrameMillis == 33
\* Math.min(255, ...), and the maxval of the PPM header
MaxByte == 255

-----------------------------------------------------------------------------
(* Strings are sequences of UTF-16 code units; files are sequences of      *)
(* bytes.                                                                  *)

Min2(a, b) == IF a <= b THEN a ELSE b
Max2(a, b) == IF a >= b THEN a ELSE b

RECURSIVE Pow10(_)
Pow10(n) == IF n = 0 THEN 1 ELSE 10 * Pow10(n - 1)

\* Number.prototype.toString() of a non-negative integer: its decimal digits.
RECURSIVE toString(_)
toString(n) ==
    IF n < 10 THEN <<48 + n>>
    ELSE toString(n \div 10) \o <<48 + (n % 10)>>

\* String.prototype.padStart(targetLength, padString) with a one-unit pad.
RECURSIVE padStart(_, _, _)
padStart(s, targetLength, padUnit) ==
    IF Len(s) >= targetLength THEN s
    ELSE padStart(<<padUnit>> \o s, targetLength, padUnit)

\* A plausible slip: the index is not padded.
frameNameUnpadded(frameIndex) ==
    <<102, 114, 97, 109, 101, 95>> \o toString(frameIndex) \o <<46, 112, 112, 109>>

\* `frame_${frameIndex.toString().padStart(6, '0')}.ppm`
frameName(frameIndex) ==
    <<102, 114, 97, 109, 101, 95>>
        \o padStart(toString(frameIndex), PadWidth, 48)
        \o <<46, 112, 112, 109>>

\* join(process.cwd(), 'temp_frames'), relative to the working directory
tempDir == <<116, 101, 109, 112, 95, 102, 114, 97, 109, 101, 115>>

\* join(process.cwd(), 'temp_video.mp4')
outputPath == <<116, 101, 109, 112, 95, 118, 105, 100, 101, 111, 46, 109, 112, 52>>

\* join(tempDir, name)
framePath(frameIndex) == tempDir \o <<47>> \o frameName(frameIndex)

\* The order of strings by code unit (what a lexical sort of names uses).
RECURSIVE LexLess(_, _)
LexLess(s, t) ==
    IF t = <<>> THEN FALSE
    ELSE IF s = <<>> THEN TRUE
    ELSE IF Head(s) # Head(t) THEN Head(s) < Head(t)
    ELSE LexLess(Tail(s), Tail(t))

-----------------------------------------------------------------------------
(* The entries of tensor_data as JavaScript values.  A finite number v is  *)
(* [t |-> "num", h |-> v * Denominator]; [t |-> "inf"] carries its sign in *)
(* h; null is a JSON null; undef is what an index past the end reads.      *)

Num(h) == [t |-> "num", h |-> h]
Whole(n) == Num(n * Denominator)
PosInf == [t |-> "inf", h |-> 1]
NegInf == [t |-> "inf", h |-> -1]
Null == [t |-> "null", h |-> 0]
Undef == [t |-> "undef", h |-> 0]

\* frame.tensor_data[i], i counted from 0
At(tensor_data, i) ==
    IF i >= 0 /\ i < Len(tensor_data) THEN tensor_data[i + 1] ELSE Undef

\* x || 0
OrZero(x) ==
    IF x.t \in {"null", "undef"} \/ (x.t = "num" /\ x.h = 0) THEN Whole(0) ELSE x

\* Math.floor(x) of a number
MathFloor(x) ==
    IF x.t = "num" THEN Whole(x.h \div Denominator) ELSE x

\* Math.min(255, x) and Math.max(0, x) of a number
MathMin(n, x) ==
    IF x.t = "inf" THEN (IF x.h > 0 THEN Whole(n) ELSE x)
    ELSE IF x.h <= n * Denominator THEN x ELSE Whole(n)

MathMax(n, x) ==
    IF x.t = "inf" THEN (IF x.h < 0 THEN Whole(n) ELSE x)
    ELSE IF x.h >= n * Denominator THEN x ELSE Whole(n)

\* A plausible slip: the lower clamp forgotten.
packNoLowerClamp(x) == MathMin(MaxByte, MathFloor(OrZero(x)))

\* Math.max(0, Math.min(255, Math.floor(x || 0)))
pack(x) == MathMax(0, MathMin(MaxByte, MathFloor(OrZero(x))))

\* String.fromCharCode(n) of a number: ToUint16 of its integer part.
fromCharCode(x) ==
    IF x.t = "num" THEN (x.h \div Denominator) % 65536 ELSE 0

\* The loop of lines 58-64: one r, g, b triple every `channels` entries.
RECURSIVE pixelLoop(_, _, _)
pixelLoop(tensor_data, channels, i) ==
    IF i < Len(tensor_data)
    THEN <<fromCharCode(pack(At(tensor_data, i))),
           fromCharCode(pack(At(tensor_data, i + 1))),
           fromCharCode(pack(At(tensor_data, i + 2)))>>
             \o pixelLoop(tensor_data, channels, i + channels)
    ELSE <<>>

\* `P6\n${width} ${height}\n255\n`
ppmHeader(width, height) ==
    <<80, 54, 10>> \o toString(width) \o <<32>> \o toString(height)
        \o <<10>> \o toString(MaxByte) \o <<10>>

\* ppmContent when the pixel loop has ended
ppmContent(width, height, channels, tensor_data) ==
    ppmHeader(width, height) \o pixelLoop(tensor_data, channels, 0)

\* The UTF-8 encoding of one code unit below 0x800.
utf8Unit(u) ==
    IF u < 128 THEN <<u>>
    ELSE <<192 + (u \div 64), 128 + (u % 64)>>

\* What writeFileSync(path, string) puts in the file: the string in UTF-8,
\* the default encoding of a string argument.
RECURSIVE utf8(_)
utf8(s) ==
    IF s = <<>> THEN <<>> ELSE utf8Unit(Head(s)) \o utf8(Tail(s))

\* The bytes of the staged image of one frame.
frameFile(width, height, channels, tensor_data) ==
    utf8(ppmContent(width, height, channels, tensor_data))

-----------------------------------------------------------------------------
(* Inputs of the staging of one frame.                                     *)

RECURSIVE SeqsUpTo(_, _)
SeqsUpTo(S, n) ==
    IF n = 0 THEN {<<>>}
    ELSE LET shorter == SeqsUpTo(S, n - 1)
         IN  shorter \cup {Append(s, x) : s \in {q \in shorter : Len(q) = n - 1}, x \in S}

\* -1, -1/Denominator, 0, 200, 255 + 1/Denominator, 256, the infinities
\* (JSON numbers such as 1e999 parse to them) and null.
Samples ==
    {Whole(-1), Num(-1), Whole(0), Whole(200), Num(MaxByte * Denominator + 1),
     Whole(MaxByte + 1), PosInf, NegInf, Null}

NmIdle == [i |-> 0, j |-> 0, named |-> FALSE, first |-> <<>>, second |-> <<>>]

PxIdle ==
    [width |-> 0, height |-> 0, channels |-> 0, tensor_data |-> <<>>,
     staged |-> FALSE, ppmContent |-> <<>>, bytes |-> <<>>]

MkIdle == [cameraName |-> "", now |-> 0, results |-> <<>>]

LpIdle == [channels |-> 0, tensor_data |-> <<>>, i |-> 0, pixels |-> 0, at |-> "idle"]

\* The dashboard before it is mounted: no data, nothing playing, no interval
\* and no update waiting for a render.  robotData is kept as the sequence of
\* its episodes' frames_per_episode.
NoInterval == [active |-> FALSE, frames_per_episode |-> 0]

UiIdle ==
    [mounted |-> FALSE, robotData |-> <<>>, activeEpisodeIndex |-> 0,
     currentFrame |-> 0, isPlaying |-> FALSE, interval |-> NoInterval,
     queue |-> <<>>, user |-> "present"]

-----------------------------------------------------------------------------
(* The staging area.  A file is a record: a staged image has bytes, the    *)
(* encoder's output has the images it was made from, in order, and is      *)
(* complete when the encoder finished it.                                  *)

Requests == {"a", "b"}

MaxStaged == Max2(MaxFrames, MockFrames)

\* The path of each frame position of the model.
pathOf == [i \in 0..(MaxStaged - 1) |-> framePath(i)]

FramePaths == {pathOf[i] : i \in 0..(MaxStaged - 1)}
Paths == FramePaths \cup {outputPath}

NoFile == [exists |-> FALSE, bytes |-> <<>>, frames |-> <<>>, complete |-> FALSE]
ImageFile(bytes) == [exists |-> TRUE, bytes |-> bytes, frames |-> <<>>, complete |-> TRUE]
VideoFile(frames, complete) ==
    [exists |-> TRUE, bytes |-> <<>>, frames |-> frames, complete |-> complete]

-----------------------------------------------------------------------------
(* Payloads (VideoTensorData, lines 9-22).                                 *)

NoPayload ==
    [kind |-> "none", camera_name |-> "", frames |-> <<>>,
     width |-> 0, height |-> 0, channels |-> 0]

\* The frame_index values of fetched frames.
FrameIndexes == {0, 1}

\* A fetched frame: its samples differ with its frame_index.
FetchedFrame(k) ==
    [frame_index |-> k, timestamp |-> 0,
     tensor_data |-> <<Whole(k), Whole(200), Whole(MaxByte + 1)>>,
     width |-> 1, height |-> 1, channels |-> 3]

\* What response.json() can yield: objects with a frames array in any order
\* of frame_index, and an object without one.
FetchedPayloads ==
    {[kind |-> "object", camera_name |-> "Front Camera", frames |-> f,
      width |-> 1, height |-> 1, channels |-> 3] :
        f \in SeqsUpTo({FetchedFrame(k) : k \in FrameIndexes}, MaxFrames)}
    \cup {[NoPayload EXCEPT !.kind = "noFrames"]}

\* cameraName.includes('Front')
includesFront(cameraName) == cameraName = "Front Camera"

\* Lines 118-136: the sinusoid terms are left at 0, their mean.
mockPixel(cameraName) ==
    IF includesFront(cameraName)
    THEN <<Whole(80), Whole(90), Whole(100)>>
    ELSE <<Whole(120), Whole(130), Whole(140)>>

\* Lines 109-138: every entry of the width * height * channels array is set.
mockTensor(cameraName, width, height) ==
    [i \in 1..(width * height * 3) |-> mockPixel(cameraName)[((i - 1) % 3) + 1]]

\* generateMockTensorData; clock[k + 1] is what Date.now() reads for frame k,
\* and a timestamp is the instant its ISO string names.
generateMockTensorData(cameraName, clock) ==
    [kind |-> "object", camera_name |-> cameraName,
     frames |-> [k \in 1..MockFrames |->
                    [frame_index |-> k - 1,
                     timestamp |-> clock[k] + (k - 1) * FrameMillis,
                     tensor_data |-> mockTensor(cameraName, MockWidth, MockHeight),
                     width |-> MockWidth, height |-> MockHeight, channels |-> 3]],
     width |-> MockWidth, height |-> MockHeight, channels |-> 3]

\* The wall clock never runs backwards.
Clocks ==
    {c \in [1..MockFrames -> 0..MaxClock] :
        \A k \in 1..(MockFrames - 1) : c[k] <= c[k + 1]}

\* What request.json() can yield (line 161): a rejection, or an object with or
\* without tensor_url, camera_name a string (the default when it is absent)
\* or not a string.
Bodies ==
    {[parsable |-> FALSE, tensor_url |-> FALSE, camera_name |-> "Front Camera"]}
    \cup {[parsable |-> TRUE, tensor_url |-> u, camera_name |-> c] :
            u \in BOOLEAN, c \in {"Front Camera", "Wrist Camera", "5"}}
NoBody == [parsable |-> FALSE, tensor_url |-> FALSE, camera_name |-> ""]

isString(cameraName) == cameraName # "5"

-----------------------------------------------------------------------------
(* Outcomes of a call and responses of a request.                          *)

NoOutcome == [kind |-> "none", err |-> "", data |-> NoFile]
Returned(buffer) == [kind |-> "buffer", err |-> "", data |-> buffer]
Thrown(e) == [kind |-> "error", err |-> e, data |-> NoFile]

NoResponse == [sent |-> 0, status |-> 0, contentType |-> "", error |-> "", data |-> NoFile]

\* Lines 178-184
videoResponse(videoBuffer) ==
    [sent |-> 1, status |-> 200, contentType |-> "video/mp4", error |-> "",
     data |-> videoBuffer]

\* A plausible slip: the message of the error is put in the response.
errorResponseWithDetail(error) ==
    [sent |-> 1, status |-> 500, contentType |-> "application/json",
     error |-> error, data |-> NoFile]

\* Lines 186-191
errorResponse(error) ==
    [sent |-> 1, status |-> 500, contentType |-> "application/json",
     error |-> "Failed to convert tensor data to video", data |-> NoFile]

\* Lines 175-191: what POST answers once convertTensorToVideo has settled.
postResponse(outcome) ==
    IF outcome.kind = "buffer" THEN videoResponse(outcome.data)
    ELSE errorResponse(outcome.err)

\* The record of one request's run.
NoCall ==
    [fetches |-> 0, fetchStatus |-> -1, jsonFailed |-> FALSE, begun |-> FALSE, written |-> <<>>,
     execStarts |-> 0, exit |-> "none", input |-> <<>>, reads |-> 0,
     tryOutcome |-> NoOutcome,
     unlinkTried |-> <<>>, cleanupThrew |-> FALSE, result |-> NoOutcome,
     returns |-> 0, throws |-> 0]

-----------------------------------------------------------------------------
(* convertTensorToVideo.                                                   *)

\* frames.length
NumFrames(td) == Len(td.frames)

\* A plausible slip: a frame file that exists is left as it is.
RECURSIVE stageFramesKeepExisting(_, _, _, _)
stageFramesKeepExisting(fsys, td, frameIndex, failAt) ==
    IF frameIndex >= failAt THEN fsys
    ELSE stageFramesKeepExisting(
            IF fsys[pathOf[frameIndex]].exists THEN fsys
            ELSE [fsys EXCEPT ![pathOf[frameIndex]] =
                    ImageFile(frameFile(td.width, td.height, td.channels,
                                        td.frames[frameIndex + 1].tensor_data))],
            td, frameIndex + 1, failAt)

\* Lines 50-67 up to the write that throws: frames frameIndex .. failAt - 1
\* are written, each over whatever the path held.
RECURSIVE stageFrames(_, _, _, _)
stageFrames(fsys, td, frameIndex, failAt) ==
    IF frameIndex >= failAt THEN fsys
    ELSE stageFrames(
            [fsys EXCEPT ![pathOf[frameIndex]] =
                ImageFile(frameFile(td.width, td.height, td.channels,
                                    td.frames[frameIndex + 1].tensor_data))],
            td, frameIndex + 1, failAt)

\* A plausible slip: the output file is left out of the cleanup.
cleanupTargetsFramesOnly(n) == [i \in 1..n |-> pathOf[i - 1]]

\* A plausible slip: the cleanup empties the whole staging directory.
cleanupTargetsWholeDir(n) == [i \in 1..MaxStaged |-> pathOf[i - 1]] \o <<outputPath>>

\* The paths the cleanup visits, in its order (lines 83-93).
cleanupTargets(n) == [i \in 1..n |-> pathOf[i - 1]] \o <<outputPath>>

\* Lines 83-93: existsSync, then unlinkSync; the first unlinkSync that throws
\* ends the block.  bad: the paths whose unlinkSync throws.
RECURSIVE unlinkAll(_, _, _, _)
unlinkAll(fsys, targets, bad, tried) ==
    IF targets = <<>> THEN [fs |-> fsys, threw |-> FALSE, tried |-> tried]
    ELSE LET p == Head(targets)
         IN  IF ~fsys[p].exists THEN unlinkAll(fsys, Tail(targets), bad, tried)
             ELSE IF p \in bad
                  THEN [fs |-> fsys, threw |-> TRUE, tried |-> Append(tried, p)]
                  ELSE unlinkAll([fsys EXCEPT ![p] = NoFile], Tail(targets), bad,
                                 Append(tried, p))

\* The try block of lines 81-93; frames.length of a payload with no frames
\* array throws before anything is deleted.
cleanup(fsys, td, bad) ==
    IF td.kind = "noFrames" THEN [fs |-> fsys, threw |-> TRUE, tried |-> <<>>]
    ELSE unlinkAll(fsys, cleanupTargets(NumFrames(td)), bad, <<>>)

\* A plausible slip: the cleanup is not wrapped in its own try/catch.
cleanupPropagatesUncaught(threw) == threw

\* Lines 94-96: whether an error of the cleanup leaves the finally block.
cleanupPropagates(threw) == FALSE

\* try { ... } finally { ... }: an error that leaves the finally block
\* replaces the outcome of the try block.
tryFinally(tryOutcome, finallyThrew) ==
    IF finallyThrew THEN Thrown("CleanupError") ELSE tryOutcome

\* A plausible slip: an error of a write is swallowed and the encoder runs.
stagingNeverThrows(failAt, n) == FALSE

\* A plausible slip: a payload without frames is refused before the encoder.
stagingThrowsWhenEmpty(failAt, n) == failAt < n \/ n = 0

\* Line 67 to line 72: the encoder is started when no write threw.
stagingThrows(failAt, n) == failAt < n

\* The deletions that may fail: none, or that of one existing file (the
\* first unlinkSync that throws ends the block), within the fault budget.
BadSets(fsys) ==
    {{}} \cup {{p} : p \in {q \in Paths : fsys[q].exists /\ faults < MaxFaults}}

\* A plausible slip: the call settles and POST answers with the staged files
\* still in place, their deletion left for later.
SettleCleanupLater(r, c, td, tryOutcome, fsys) ==
    /\ fs' = fsys
    /\ faults' = faults
    /\ call' = [call EXCEPT ![r] =
                  [c EXCEPT !.tryOutcome = tryOutcome,
                            !.result = tryOutcome,
                            !.returns = IF tryOutcome.kind = "buffer" THEN 1 ELSE 0,
                            !.throws = IF tryOutcome.kind = "error" THEN 1 ELSE 0]]
    /\ response' = [response EXCEPT ![r] = postResponse(tryOutcome)]
    /\ pc' = [pc EXCEPT ![r] = "responded"]

\* Lines 79-97 and POST's lines 175-191: the finally block runs on fsys, the
\* call settles and POST answers.
Settle(r, c, td, tryOutcome, fsys) ==
    \E bad \in BadSets(fsys) :
        LET cl == cleanup(fsys, td, bad)
            result == tryFinally(tryOutcome, cleanupPropagates(cl.threw))
        IN  /\ fs' = cl.fs
            /\ faults' = faults + Cardinality(bad \cap {cl.tried[i] : i \in 1..Len(cl.tried)})
            /\ call' = [call EXCEPT ![r] =
                          [c EXCEPT !.tryOutcome = tryOutcome,
                                    !.unlinkTried = cl.tried,
                                    !.cleanupThrew = cl.threw,
                                    !.result = result,
                                    !.returns = IF result.kind = "buffer" THEN 1 ELSE 0,
                                    !.throws = IF result.kind = "error" THEN 1 ELSE 0]]
            /\ response' = [response EXCEPT ![r] = postResponse(result)]
            /\ pc' = [pc EXCEPT ![r] = "responded"]

\* A plausible slip: each frame is written with an awaited write, so the task
\* is suspended with the first frame written and the others not.
ConvertAwaitsWrites(r, c0, td) ==
    /\ tensorData' = [tensorData EXCEPT ![r] = td]
    /\ IF td.kind = "noFrames"
       THEN Settle(r, [c0 EXCEPT !.begun = TRUE], td, Thrown("TypeError"), fs)
       ELSE LET n == Min2(1, NumFrames(td))
            IN  /\ fs' = stageFrames(fs, td, 0, n)
                /\ call' = [call EXCEPT ![r] =
                              [c0 EXCEPT !.begun = TRUE,
                                         !.written = [i \in 1..n |-> pathOf[i - 1]]]]
                /\ pc' = [pc EXCEPT ![r] = "write"]
                /\ UNCHANGED <<response, faults>>

\* Lines 42-72: the synchronous part of convertTensorToVideo, from the call
\* to the await of the encoder (or to the throw of a write).
Convert(r, c0, td) ==
    LET c == [c0 EXCEPT !.begun = TRUE]
    IN  /\ tensorData' = [tensorData EXCEPT ![r] = td]
        /\ IF td.kind = "noFrames"
           THEN Settle(r, c, td, Thrown("TypeError"), fs)
           ELSE \E failAt \in 0..NumFrames(td) :
                  /\ tempDirExists \/ failAt = 0
                  /\ LET staged == stageFrames(fs, td, 0, failAt)
                         cw == [c EXCEPT !.written = [i \in 1..failAt |-> pathOf[i - 1]]]
                     IN  IF stagingThrows(failAt, NumFrames(td))
                         THEN Settle(r, cw, td, Thrown("WriteError"), staged)
                         ELSE /\ fs' = staged
                              /\ call' = [call EXCEPT ![r] =
                                            [cw EXCEPT !.execStarts = @ + 1]]
                              /\ pc' = [pc EXCEPT ![r] = "exec"]
                              /\ UNCHANGED <<response, faults>>

\* POST's catch for an error raised before convertTensorToVideo is called.
Fail(r, c) ==
    /\ response' = [response EXCEPT ![r] = errorResponse("")]
    /\ pc' = [pc EXCEPT ![r] = "responded"]
    /\ call' = [call EXCEPT ![r] = c]
    /\ UNCHANGED <<fs, faults, tensorData>>

-----------------------------------------------------------------------------
(* The steps of a request.                                                 *)

\* A request arrives: POST runs to `await request.json()` (line 161).
Receive(r) ==
    /\ pc[r] = "idle"
    /\ \E b \in Bodies : body' = [body EXCEPT ![r] = b]
    /\ pc' = [pc EXCEPT ![r] = "json"]
    /\ UNCHANGED <<fs, tempDirExists, tensorData, call, response, faults, px, nm, mk, lp, ui>>

\* request.json() settles: lines 161-175, to the next await.
ParseBody(r) ==
    /\ pc[r] = "json"
    /\ IF ~body[r].parsable
       THEN Fail(r, call[r])
       ELSE IF body[r].tensor_url
       THEN /\ call' = [call EXCEPT ![r].fetches = @ + 1]
            /\ pc' = [pc EXCEPT ![r] = "fetch"]
            /\ UNCHANGED <<fs, faults, tensorData, response>>
       ELSE IF ~isString(body[r].camera_name)
       THEN Fail(r, call[r])
       ELSE \E clock \in Clocks :
              Convert(r, call[r], generateMockTensorData(body[r].camera_name, clock))
    /\ UNCHANGED <<tempDirExists, body, px, nm, mk, lp, ui>>

\* A plausible slip: the status of the response is not looked at.
responseOkAlways(status) == TRUE

\* response.ok
responseOk(status) == status \in 200..299

\* A plausible slip: a fetch that fails is tried a second time.
FetchRespondsRetries(r) ==
    /\ pc[r] = "fetch"
    /\ \E status \in {0, 200, 404} :
          IF status # 0 /\ responseOk(status)
          THEN /\ pc' = [pc EXCEPT ![r] = "fetchJson"]
               /\ call' = [call EXCEPT ![r].fetchStatus = status]
               /\ UNCHANGED <<fs, faults, tensorData, response>>
          ELSE IF call[r].fetches < 2
          THEN /\ call' = [call EXCEPT ![r].fetches = @ + 1]
               /\ UNCHANGED <<pc, fs, faults, tensorData, response>>
          ELSE Fail(r, [call[r] EXCEPT !.fetchStatus = status])
    /\ UNCHANGED <<tempDirExists, body, px, nm, mk, lp, ui>>

\* fetch(url) settles: lines 27-32, to `await response.json()`.
FetchResponds(r) ==
    /\ pc[r] = "fetch"
    /\ \E status \in {0, 200, 404} :
          \* status 0: fetch rejects (a transport error)
          IF status # 0 /\ responseOk(status)
          THEN /\ pc' = [pc EXCEPT ![r] = "fetchJson"]
               /\ call' = [call EXCEPT ![r].fetchStatus = status]
               /\ UNCHANGED <<fs, faults, tensorData, response>>
          ELSE Fail(r, [call[r] EXCEPT !.fetchStatus = status])
    /\ UNCHANGED <<tempDirExists, body, px, nm, mk, lp, ui>>

\* response.json() settles: lines 32-37, then POST's line 175.
FetchBody(r) ==
    /\ pc[r] = "fetchJson"
    /\ \/ Fail(r, [call[r] EXCEPT !.jsonFailed = TRUE])
       \/ \E td \in FetchedPayloads : Convert(r, call[r], td)
    /\ UNCHANGED <<tempDirExists, body, px, nm, mk, lp, ui>>

\* ffmpeg -i temp_frames/frame_%06d.ppm: the images read are those numbered
\* consecutively from the first one found among the numbers 0 to 4.
RECURSIVE imagesFrom(_, _)
imagesFrom(fsys, i) ==
    IF i < MaxStaged /\ fsys[pathOf[i]].exists
    THEN <<fsys[pathOf[i]].bytes>> \o imagesFrom(fsys, i + 1)
    ELSE <<>>

encoderInput(fsys) ==
    LET first == {i \in 0..(Min2(MaxStaged, 5) - 1) : fsys[pathOf[i]].exists}
    IN  IF first = {} THEN <<>>
        ELSE imagesFrom(fsys, CHOOSE i \in first : \A j \in first : i <= j)

\* The encoder process of line 70 runs and exits: with "ok" it has written
\* the whole output (it needs an image to read), with "fail" it may leave a
\* partial output (-y), with "nostart" it never ran.
EncoderRuns(r) ==
    /\ pc[r] = "exec"
    /\ \E exit \in {"ok", "fail", "nostart"}, partial \in BOOLEAN :
          /\ exit = "ok" => encoderInput(fs) # <<>> /\ ~partial
          /\ exit = "nostart" => ~partial
          /\ fs' = IF exit = "ok"
                   THEN [fs EXCEPT ![outputPath] = VideoFile(encoderInput(fs), TRUE)]
                   ELSE IF partial
                   THEN [fs EXCEPT ![outputPath] = VideoFile(<<>>, FALSE)]
                   ELSE fs
          \* input: the images the encoder process was given, if it ran
          /\ call' = [call EXCEPT ![r].exit = exit,
                                  ![r].input = IF exit = "nostart" THEN <<>>
                                               ELSE encoderInput(fs)]
    /\ pc' = [pc EXCEPT ![r] = "execDone"]
    /\ UNCHANGED <<tempDirExists, body, tensorData, response, faults, px, nm, mk, lp, ui>>

\* A plausible slip: the rejection of execAsync is swallowed and the output
\* file is read all the same.
readsOutputAlways(exit) == TRUE

\* A plausible slip: only a process that could not be started is taken for a
\* failure, and the output of one that exited with an error is read.
readsOutputUnlessNotStarted(exit) == exit # "nostart"

\* Lines 72-75: readFileSync is reached when `await execAsync` did not throw.
readsOutput(exit) == exit = "ok"

\* Lines 72-77: what the try block yields once the encoder has exited.
afterExec(exit, fsys, readOk) ==
    IF ~readsOutput(exit) THEN Thrown("EncodeError")
    ELSE IF fsys[outputPath].exists /\ readOk THEN Returned(fsys[outputPath])
    ELSE Thrown("ReadError")

\* execAsync settles: lines 72-97 and POST's lines 175-191.
ExecSettles(r) ==
    /\ pc[r] = "execDone"
    /\ \E readOk \in BOOLEAN :
          Settle(r, [call[r] EXCEPT !.reads = IF readsOutput(call[r].exit) THEN 1 ELSE 0],
                 tensorData[r], afterExec(call[r].exit, fs, readOk), fs)
    /\ UNCHANGED <<tempDirExists, body, tensorData, px, nm, mk, lp, ui>>

\* The response has been sent: the request's task ends, its locals are gone.
Close(r) ==
    /\ pc[r] = "responded"
    /\ pc' = [pc EXCEPT ![r] = "idle"]
    /\ body' = [body EXCEPT ![r] = NoBody]
    /\ tensorData' = [tensorData EXCEPT ![r] = NoPayload]
    /\ call' = [call EXCEPT ![r] = NoCall]
    /\ response' = [response EXCEPT ![r] = NoResponse]
    /\ UNCHANGED <<fs, tempDirExists, faults, px, nm, mk, lp, ui>>

\* No other request is in progress.
Alone(r) == \A q \in Requests \ {r} : pc[q] = "idle"

\* Requests served one after another leave nothing to each other but the
\* staging area: one task serves them all.
Serial == {"a"}

MainIdle ==
    /\ fs = [p \in Paths |-> NoFile]
    /\ pc = [r \in Requests |-> "idle"]
    /\ body = [r \in Requests |-> NoBody]
    /\ tensorData = [r \in Requests |-> NoPayload]
    /\ call = [r \in Requests |-> NoCall]
    /\ response = [r \in Requests |-> NoResponse]
    /\ faults = 0

Init ==
    /\ MainIdle
    /\ tempDirExists \in BOOLEAN
    /\ px = PxIdle
    /\ nm = NmIdle
    /\ mk = MkIdle
    /\ lp = LpIdle
    /\ ui = UiIdle

Next ==
    \E r \in Serial :
        \/ Alone(r) /\ Receive(r)
        \/ ParseBody(r)
        \/ FetchResponds(r)
        \/ FetchBody(r)
        \/ EncoderRuns(r)
        \/ ExecSettles(r)
        \/ Close(r)

Spec == Init /\ [][Next]_vars

-----------------------------------------------------------------------------
(* RepeatSpec: one payload is converted twice, the second request arriving *)
(* once the first has been answered.  The staging area starts with what     *)
(* earlier requests whose deletions failed can have left in it.            *)

First == "a"
Second == "b"

\* An image of an earlier request, unlike any image of the two runs.
StaleImage == frameFile(1, 1, 3, <<Whole(200), Whole(200), Whole(200)>>)

\* The staging areas earlier requests can leave: any of the paths holding a
\* file of theirs (lines 81-96 give up at the first deletion that fails).
StaleAreas ==
    {[p \in Paths |->
        IF p \notin left THEN NoFile
        ELSE IF p = outputPath THEN VideoFile(<<StaleImage>>, TRUE)
        ELSE ImageFile(StaleImage)] : left \in SUBSET Paths}

RepeatInit ==
    /\ tempDirExists \in BOOLEAN
    /\ fs \in StaleAreas
    /\ tempDirExists \/ \A p \in FramePaths : ~fs[p].exists
    /\ pc = [r \in Requests |-> "idle"]
    /\ body = [r \in Requests |-> NoBody]
    /\ tensorData = [r \in Requests |-> NoPayload]
    /\ call = [r \in Requests |-> NoCall]
    /\ response = [r \in Requests |-> NoResponse]
    /\ faults = 0
    /\ px = PxIdle
    /\ nm = NmIdle
    /\ mk = MkIdle
    /\ lp = LpIdle
    /\ ui = UiIdle

\* The first request has been answered and had started the encoder.
FirstAnswered == pc[First] = "responded" /\ call[First].execStarts = 1

\* The second request is given what the first was given.
SameBody == body'[Second] = body[First]
SamePayload == tensorData'[Second] \in {NoPayload, tensorData[First]}

RepeatNext ==
    \/ Receive(First)
    \/ ParseBody(First)
    \/ FetchResponds(First)
    \/ FetchBody(First)
    \/ EncoderRuns(First)
    \/ ExecSettles(First)
    \/ FirstAnswered /\ Receive(Second) /\ SameBody
    \/ ParseBody(Second) /\ SamePayload
    \/ FetchResponds(Second)
    \/ FetchBody(Second) /\ SamePayload
    \/ EncoderRuns(Second)
    \/ ExecSettles(Second)

RepeatSpec == RepeatInit /\ [][RepeatNext]_vars

-----------------------------------------------------------------------------
(* ConcSpec: two requests in progress at once.  A step is what one task    *)
(* runs between two awaits; the steps of the two requests interleave in    *)
(* any order.                                                              *)

\* Nothing is staged, the staging directory exists, and one deletion may
\* still fail.
ConcInit ==
    /\ fs = [p \in Paths |-> NoFile]
    /\ pc = [r \in Requests |-> "idle"]
    /\ body = [r \in Requests |-> NoBody]
    /\ tensorData = [r \in Requests |-> NoPayload]
    /\ call = [r \in Requests |-> NoCall]
    /\ response = [r \in Requests |-> NoResponse]
    /\ faults = MaxFaults - 1
    /\ tempDirExists = TRUE
    /\ px = PxIdle
    /\ nm = NmIdle
    /\ mk = MkIdle
    /\ lp = LpIdle
    /\ ui = UiIdle

\* Both requests name a tensor_url; the one called First arrives first.
ConcReceive(r) ==
    /\ r = Second => pc[First] # "idle"
    /\ Receive(r)
    /\ body'[r].parsable /\ body'[r].tensor_url
    /\ body'[r].camera_name = "Front Camera"

ConcNext ==
    \E r \in Requests :
        \/ ConcReceive(r)
        \/ ParseBody(r)
        \/ FetchResponds(r)
        \/ FetchBody(r)
        \/ EncoderRuns(r)
        \/ ExecSettles(r)

ConcSpec == ConcInit /\ [][ConcNext]_vars

-----------------------------------------------------------------------------
(* LoopSpec: the per-pixel loop of line 58 over one frame of a fetched     *)
(* payload, one pass per step, for any integer channels from -1 up.  Of i  *)
(* below 0 only that it is below 0 matters (i < length holds, the samples  *)
(* read are undefined), so i is kept down to -MaxLen; the pixels appended  *)
(* are counted modulo MaxLen + 2, more than a loop that ends appends.      *)

\* The samples of LoopSpec's frames.
LoopSamples == {Whole(0), Whole(200)}

LoopInit ==
    /\ \E channels \in -1..MaxChannels, tensor_data \in SeqsUpTo(LoopSamples, MaxLen) :
          lp = [LpIdle EXCEPT !.channels = channels, !.tensor_data = tensor_data,
                              !.at = "loop"]
    /\ MainIdle
    /\ tempDirExists = TRUE
    /\ px = PxIdle
    /\ nm = NmIdle
    /\ mk = MkIdle
    /\ ui = UiIdle

\* Lines 58-64: i < frame.tensor_data.length holds, one pixel is appended
\* and i += channels.
LoopPass ==
    /\ lp.at = "loop"
    /\ lp.i < Len(lp.tensor_data)
    /\ lp' = [lp EXCEPT !.i = Max2(lp.i + lp.channels, -MaxLen),
                        !.pixels = (lp.pixels + 1) % (MaxLen + 2)]
    /\ UNCHANGED <<px, nm, mk, ui, fs, tempDirExists, pc, body, tensorData, call, response, faults>>

\* Line 58: i < frame.tensor_data.length fails; the frame is written (line 66).
LoopExit ==
    /\ lp.at = "loop"
    /\ ~(lp.i < Len(lp.tensor_data))
    /\ lp' = [lp EXCEPT !.at = "staged"]
    /\ UNCHANGED <<px, nm, mk, ui, fs, tempDirExists, pc, body, tensorData, call, response, faults>>

\* Lines 70-97 and POST's lines 175-191: the encoder returns, the call settles
\* and POST answers.
LoopRespond ==
    /\ lp.at = "staged"
    /\ lp' = [lp EXCEPT !.at = "responded"]
    /\ UNCHANGED <<px, nm, mk, ui, fs, tempDirExists, pc, body, tensorData, call, response, faults>>

LoopNext == LoopPass \/ LoopExit \/ LoopRespond

\* The task keeps running, and the encoder returns.
LoopSpec == LoopInit /\ [][LoopNext]_vars /\ WF_vars(LoopNext)

-----------------------------------------------------------------------------
(* MockSpec: generateMockTensorData at its full size.  A tensor of 230400  *)
(* samples is kept as its shape: its length, how many of its entries were  *)
(* assigned, and what its samples are a function of (the camera pattern    *)
(* and the frame's time).                                                  *)

\* Lines 102-105
GenFrames == 60
GenWidth == 320
GenHeight == 240
GenChannels == 3

\* Lines 113-135, one pass of the inner loop: tensor[pixelIndex],
\* tensor[pixelIndex + 1] and tensor[pixelIndex + 2] are assigned.
onePass(y, x, width, channels) ==
    LET pixelIndex == (y * width + x) * channels
    IN  [low |-> pixelIndex, high |-> pixelIndex + 2, assigned |-> 3,
         ascending |-> TRUE]

\* Passes a, then passes b: the lowest and highest index assigned, how many
\* assignments were made, and whether every pass assigned indexes above all
\* those of the passes before it (no entry is then assigned twice).
thenPasses(a, b) ==
    [low |-> Min2(a.low, b.low), high |-> Max2(a.high, b.high),
     assigned |-> a.assigned + b.assigned,
     ascending |-> a.ascending /\ b.ascending /\ a.high < b.low]

\* Lines 111-138: the passes of the two loops numbered from..to in the order
\* they are made; pass n has y = n \div width and x = n % width.
RECURSIVE passes(_, _, _, _)
passes(from, to, width, channels) ==
    IF from = to THEN onePass(from \div width, from % width, width, channels)
    ELSE LET mid == (from + to) \div 2
         IN  thenPasses(passes(from, mid, width, channels),
                        passes(mid + 1, to, width, channels))

\* Lines 109-138: new Array(width * height * channels), which an assignment
\* past its end would lengthen, after all the passes.
tensorShape(width, height, channels) ==
    LET all == passes(0, width * height - 1, width, channels)
    IN  [length |-> Max2(width * height * channels, all.high + 1),
         low |-> all.low, assigned |-> all.assigned, ascending |-> all.ascending]

GenTensorShape == tensorShape(GenWidth, GenHeight, GenChannels)

\* A plausible slip: frames are numbered from 1.
mockFrameOneBased(cameraName, frameIndex, now) ==
    [frame_index |-> frameIndex + 1,
     timestamp |-> now + frameIndex * FrameMillis,
     tensor_data |-> [shape |-> GenTensorShape,
                      front |-> includesFront(cameraName),
                      time |-> frameIndex],
     width |-> GenWidth, height |-> GenHeight, channels |-> GenChannels]

\* Lines 107-147, the callback of Array.from for one frame; now is what
\* Date.now() reads at line 142, time is in tenths (frameIndex * 0.1), and a
\* timestamp is the instant its ISO string names, in milliseconds.
mockFrame(cameraName, frameIndex, now) ==
    [frame_index |-> frameIndex,
     timestamp |-> now + frameIndex * FrameMillis,
     tensor_data |-> [shape |-> GenTensorShape,
                      front |-> includesFront(cameraName),
                      time |-> frameIndex],
     width |-> GenWidth, height |-> GenHeight, channels |-> GenChannels]

\* Lines 107-156: the payload of one call; clock[k + 1] is the reading of
\* Date.now() for frame k.
fullMockTensorData(cameraName, clock) ==
    [camera_name |-> cameraName,
     frames |-> [k \in 1..GenFrames |-> mockFrame(cameraName, k - 1, clock[k])],
     width |-> GenWidth, height |-> GenHeight, channels |-> GenChannels]

\* The readings of a wall clock that never runs backwards, over n frames of a
\* call that starts no earlier than from: the clock ticks to from + j before
\* the reading for frame ticks[j].
Readings(from, n) ==
    {[k \in 1..n |-> from + Cardinality({j \in 1..(MaxClock - from) : ticks[j] < k})] :
        ticks \in {t \in [1..(MaxClock - from) -> 0..n] :
                     \A j \in 1..(MaxClock - from - 1) : t[j] <= t[j + 1]}}

\* The camera labels: with 'Front', without, and the empty string.
Labels == {"Front Camera", "Wrist Camera", ""}

MockInit ==
    /\ \E cameraName \in Labels : mk = [MkIdle EXCEPT !.cameraName = cameraName]
    /\ MainIdle
    /\ tempDirExists = TRUE
    /\ px = PxIdle
    /\ nm = NmIdle
    /\ lp = LpIdle
    /\ ui = UiIdle

\* One call of generateMockTensorData(cameraName).
MockCall ==
    /\ Len(mk.results) < MaxCalls
    /\ \E clock \in Readings(mk.now, GenFrames) :
          mk' = [mk EXCEPT !.now = clock[GenFrames],
                           !.results = Append(@, fullMockTensorData(mk.cameraName, clock))]
    /\ UNCHANGED <<px, nm, lp, ui, fs, tempDirExists, pc, body, tensorData, call, response, faults>>

MockNext == MockCall

MockSpec == MockInit /\ [][MockNext]_vars

-----------------------------------------------------------------------------
(* PixelSpec: one frame is staged.                                         *)

PixelInit ==
    /\ \E w \in 1..MaxDim, h \in 1..MaxDim, c \in 1..MaxChannels, td \in SeqsUpTo(Samples, MaxLen) :
          px = [PxIdle EXCEPT !.width = w, !.height = h, !.channels = c,
                              !.tensor_data = td]
    /\ nm = NmIdle
    /\ mk = MkIdle
    /\ lp = LpIdle
    /\ ui = UiIdle
    /\ MainIdle
    /\ tempDirExists = TRUE

\* Lines 55-66 for one frame.
StageFrame ==
    /\ ~px.staged
    /\ px' = [px EXCEPT
                !.staged = TRUE,
                !.ppmContent = ppmContent(px.width, px.height, px.channels, px.tensor_data),
                !.bytes = frameFile(px.width, px.height, px.channels, px.tensor_data)]
    /\ UNCHANGED <<nm, mk, lp, ui, fs, tempDirExists, pc, body, tensorData, call, response, faults>>

PixelNext == StageFrame

PixelSpec == PixelInit /\ [][PixelNext]_vars

-----------------------------------------------------------------------------
(* PixelSpec: the packed samples and the bytes of the staged image.        *)

\* The entries of tensor_data at which the loop of line 58 starts a triple.
TripleStarts(tensor_data, channels) ==
    {i \in 0..(Len(tensor_data) - 1) : i % channels = 0}

\* The code unit the staged string holds for the c-th sample of the triple
\* that starts at entry i.
PackedAt(i, c) ==
    px.ppmContent[Len(ppmHeader(px.width, px.height)) + 3 * (i \div px.channels) + c + 1]

\* max(0, min(255, floor(v))) of a number v, undefined taken as 0.
Expected(x) ==
    IF x.t = "num" THEN Max2(0, Min2(MaxByte, x.h \div Denominator))
    ELSE IF x.t = "inf" /\ x.h > 0 THEN MaxByte
    ELSE 0

\* C5: every number v read from tensor_data is packed as
\* max(0, min(255, floor(v))), and an entry past the end of tensor_data
\* (undefined) is packed as 0.
C5_PackedSample ==
    px.staged =>
        /\ Len(px.ppmContent) = Len(ppmHeader(px.width, px.height))
                                  + 3 * Cardinality(TripleStarts(px.tensor_data, px.channels))
        /\ \A i \in TripleStarts(px.tensor_data, px.channels), c \in 0..2 :
              LET x == At(px.tensor_data, i + c)
              IN  x.t \in {"num", "inf", "undef"} => PackedAt(i, c) = Expected(x)

\* C5 witness: a frame has been staged whose samples include a fraction below
\* 0, a fraction above 255 and a read past the end of tensor_data.
C5_Witness ==
    /\ px.staged
    /\ px.channels = 3
    /\ px.tensor_data = <<Num(-1), Num(MaxByte * Denominator + 1)>>
    /\ PackedAt(0, 0) = 0 /\ PackedAt(0, 1) = MaxByte /\ PackedAt(0, 2) = 0

\* The clamped value of the c-th sample of the triple that starts at entry i.
Clamped(i, c) == Expected(At(px.tensor_data, i + c))

\* C6 (as claimed): after the header the staged file holds exactly three
\* bytes per pixel, each equal to the clamped sample.
C6_ThreeRawBytesPerPixel ==
    px.staged =>
        LET hl == Len(ppmHeader(px.width, px.height))
            starts == TripleStarts(px.tensor_data, px.channels)
        IN  /\ Len(px.bytes) = hl + 3 * Cardinality(starts)
            /\ \A i \in starts, c \in 0..2 :
                  px.bytes[hl + 3 * (i \div px.channels) + c + 1] = Clamped(i, c)

\* C7 (as claimed): a frame whose tensor_data is shorter than
\* width * height * channels is staged with width * height pixels, the
\* missing ones black.
C7_ShortTensorBlackFilled ==
    (px.staged /\ Len(px.tensor_data) < px.width * px.height * px.channels) =>
        LET hl == Len(ppmHeader(px.width, px.height))
        IN  /\ Len(px.ppmContent) = hl + 3 * px.width * px.height
            /\ \A k \in 0..(px.width * px.height - 1), c \in 0..2 :
                  k * px.channels + c >= Len(px.tensor_data)
                      => px.ppmContent[hl + 3 * k + c + 1] = 0

-----------------------------------------------------------------------------
(* NameSpec: the staged file names of two frame positions i < j.           *)

\* Positions up to 11, and those on each side of a power of ten.
MaxDigits == 7
Positions ==
    0..11 \cup {Pow10(d) - 1 : d \in 2..MaxDigits} \cup {Pow10(d) : d \in 2..MaxDigits}

NameInit ==
    /\ \E i \in Positions, j \in Positions :
          /\ i < j
          /\ nm = [NmIdle EXCEPT !.i = i, !.j = j]
    /\ px = PxIdle
    /\ mk = MkIdle
    /\ lp = LpIdle
    /\ ui = UiIdle
    /\ MainIdle
    /\ tempDirExists = TRUE

\* Line 52 for frameIndex = i and for frameIndex = j.
NameFrames ==
    /\ ~nm.named
    /\ nm' = [nm EXCEPT !.named = TRUE, !.first = frameName(nm.i),
                        !.second = frameName(nm.j)]
    /\ UNCHANGED <<px, mk, lp, ui, fs, tempDirExists, pc, body, tensorData, call, response, faults>>

NameNext == NameFrames

NameSpec == NameInit /\ [][NameNext]_vars

\* C8 (as claimed): for all positions i < j the name of i sorts before the
\* name of j, also when a position needs more than 6 digits.
C8_NamesSortForEveryIndex ==
    (nm.named /\ nm.i < nm.j) => LexLess(nm.first, nm.second)

\* C8 (amended): for all positions i < j < 10^6 the name of i sorts before
\* the name of j.
C8_NamesSortUpToPadWidth ==
    (nm.named /\ nm.i < nm.j /\ nm.j < Pow10(PadWidth)) => LexLess(nm.first, nm.second)

\* C8 witness: the names of positions 999 and 1000 have been built and sort
\* in that order.
C8_Witness ==
    /\ nm.named
    /\ nm.i = 999 /\ nm.j = 1000
    /\ LexLess(nm.first, nm.second)

-----------------------------------------------------------------------------
(* Spec: claims about convertTensorToVideo and POST, requests served one   *)
(* after another.                                                          *)

\* Request r has called convertTensorToVideo with a payload that has a
\* frames array, and the call has settled.
Settled(r) ==
    pc[r] = "responded" /\ call[r].begun /\ tensorData[r].kind = "object"

\* The paths a cleanup of n frames has to visit, and their order: the frame
\* files by index, then the output file.
StagedPaths(n) == {framePath(i) : i \in 0..(n - 1)} \cup {outputPath}
VisitOrder(p, n) ==
    IF p = outputPath THEN n ELSE CHOOSE i \in 0..(n - 1) : framePath(i) = p

\* C1 (as claimed): after an execution over a payload with N frames none of
\* frame_000000 .. frame_{N-1} and no temp_video.mp4 exists, whatever the
\* deletions did.
C1_NothingStagedRemains ==
    \A r \in Requests :
        Settled(r) => \A p \in StagedPaths(NumFrames(tensorData[r])) : ~fs[p].exists

\* C1 (amended): after an execution in which no deletion raised an error none
\* of the N staged files and no temp_video.mp4 exists; when a deletion
\* raised, the files the cleanup visits before it are gone (the file it
\* failed on and the files after it may remain).
C1_NothingRemainsUnlessUnlinkFails ==
    \A r \in Requests :
        Settled(r) =>
            LET n == NumFrames(tensorData[r])
                tried == call[r].unlinkTried
                left == {p \in StagedPaths(n) : fs[p].exists}
            IN  /\ ~call[r].cleanupThrew => left = {}
                /\ call[r].cleanupThrew =>
                      /\ tried # <<>>
                      /\ tried[Len(tried)] \in left
                      /\ \A p \in left :
                            VisitOrder(p, n) >= VisitOrder(tried[Len(tried)], n)

\* C1 witness: a call over 2 frames has returned a buffer, no deletion raised
\* an error, and the 2 staged files and the output it read are gone.
C1_Witness ==
    \E r \in Requests :
        /\ Settled(r)
        /\ NumFrames(tensorData[r]) = 2
        /\ call[r].result.kind = "buffer"
        /\ ~call[r].cleanupThrew
        /\ Len(call[r].unlinkTried) = 3
        /\ \A p \in Paths : ~fs[p].exists

\* C2: an error of the cleanup never changes the outcome of the call: the
\* caller receives the buffer the try block returned, or exactly the error it
\* threw.
C2_CleanupNeverChangesOutcome ==
    \A r \in Requests :
        (pc[r] = "responded" /\ call[r].begun) =>
            /\ call[r].tryOutcome.kind \in {"buffer", "error"}
            /\ call[r].result = call[r].tryOutcome

\* C2 witness: the try block returned a buffer, a deletion of the cleanup
\* raised an error, and the caller received that buffer.
C2_Witness ==
    \E r \in Requests :
        /\ pc[r] = "responded"
        /\ call[r].tryOutcome.kind = "buffer"
        /\ call[r].cleanupThrew
        /\ call[r].result = call[r].tryOutcome
        /\ response[r].status = 200

\* C3 (as claimed): one call over a well-formed payload starts the encoder
\* exactly once and ends in exactly one outcome.
C3_EncoderStartedExactlyOnce ==
    \A r \in Requests :
        Settled(r) =>
            /\ call[r].execStarts = 1
            /\ call[r].returns + call[r].throws = 1

\* C3 (amended): one call over a well-formed payload starts the encoder at
\* most once, exactly once when all N frames were written and not at all when
\* a write threw, and ends in exactly one outcome: a buffer or an error.
C3_EncoderStartedOnceIfStaged ==
    \A r \in Requests :
        (call[r].begun /\ tensorData[r].kind = "object") =>
            /\ call[r].execStarts \in {0, 1}
            /\ pc[r] # "responded" =>
                  /\ call[r].returns + call[r].throws = 0
                  /\ call[r].execStarts = 1
            /\ pc[r] = "responded" =>
                  /\ call[r].returns + call[r].throws = 1
                  /\ (call[r].returns = 1) = (response[r].status = 200)
                  /\ (call[r].execStarts = 1)
                        = (Len(call[r].written) = NumFrames(tensorData[r]))

\* C3 witness: a call over 2 frames wrote both, started the encoder once and
\* ended with the error of the encoder.
C3_Witness ==
    \E r \in Requests :
        /\ Settled(r)
        /\ NumFrames(tensorData[r]) = 2
        /\ Len(call[r].written) = 2
        /\ call[r].execStarts = 1
        /\ call[r].exit = "fail"
        /\ call[r].throws = 1 /\ call[r].returns = 0

\* The frame of td with the k-th smallest frame_index, k counted from 0.
KthByFrameIndex(td, k) ==
    CHOOSE f \in {td.frames[i] : i \in 1..Len(td.frames)} :
        Cardinality({g \in {td.frames[i] : i \in 1..Len(td.frames)} :
                        g.frame_index < f.frame_index}) = k

DistinctFrameIndexes(td) ==
    \A i, j \in 1..Len(td.frames) :
        i # j => td.frames[i].frame_index # td.frames[j].frame_index

\* C4 (as claimed): when the encoder is started, the k-th staged file is the
\* image of the frame with the k-th smallest frame_index, also for a payload
\* whose frames array is not sorted by frame_index.
C4_StagedInFrameIndexOrder ==
    \A r \in Requests :
        (pc[r] = "exec" /\ DistinctFrameIndexes(tensorData[r])) =>
            \A k \in 0..(NumFrames(tensorData[r]) - 1) :
                LET td == tensorData[r]
                IN  fs[framePath(k)].bytes
                      = frameFile(td.width, td.height, td.channels,
                                  KthByFrameIndex(td, k).tensor_data)

\* The retrieval of request r failed: fetch rejected (status 0) or the
\* response had a status outside 200..299.
RetrievalFailed(r) ==
    call[r].fetchStatus = 0 \/ call[r].fetchStatus >= 300
        \/ (call[r].fetchStatus > 0 /\ call[r].fetchStatus < 200)

\* C9: when tensor_url is supplied and the retrieval fails, the request
\* fails, and within it the encoder is never started and no frame file or
\* output file is created.
C9_FetchFailureStagesNothing ==
    \A r \in Requests :
        (body[r].tensor_url /\ RetrievalFailed(r)) =>
            /\ pc[r] = "responded"
            /\ response[r].status = 500
            /\ ~call[r].begun
            /\ call[r].execStarts = 0
            /\ call[r].exit = "none"
            /\ call[r].written = <<>>

\* C9 witness: the retrieval answered 404 and the request was answered with
\* the failure, nothing staged.
C9_Witness ==
    \E r \in Requests :
        /\ body[r].tensor_url
        /\ call[r].fetchStatus = 404
        /\ pc[r] = "responded"
        /\ response[r].status = 500
        /\ \A p \in Paths : ~fs[p].exists

C11_EncoderFailureRaisedAfterCleanup ==
    \A r \in Requests :
        (pc[r] = "responded" /\ call[r].exit \in {"fail", "nostart"}) =>
            /\ call[r].reads = 0
            /\ call[r].tryOutcome = Thrown("EncodeError")
            /\ call[r].result = Thrown("EncodeError")
            /\ call[r].throws = 1 /\ call[r].returns = 0
            /\ response[r].status = 500
            /\ ~call[r].cleanupThrew =>
                  \A p \in StagedPaths(NumFrames(tensorData[r])) :
                      ~fs[p].exists
            /\ \A i \in 1..Len(call[r].unlinkTried) :
                  call[r].unlinkTried[i]
                     \in StagedPaths(NumFrames(tensorData[r]))

\* C11 witness: the encoder failed over 2 staged frames and left a partial
\* output; the caller has the error, and the 2 frames and the partial output
\* have been deleted.
C11_Witness ==
    \E r \in Requests :
        /\ pc[r] = "responded"
        /\ call[r].exit = "fail"
        /\ Len(call[r].written) = 2
        /\ call[r].result = Thrown("EncodeError")
        /\ call[r].unlinkTried = <<pathOf[0], pathOf[1], outputPath>>
        /\ ~call[r].cleanupThrew
        /\ \A p \in Paths : ~fs[p].exists

\* C12: a call over a payload whose frames array is empty writes no frame
\* file and still starts the encoder exactly once; when the encoder cannot be
\* started or fails, its error is the outcome of the call.
C12_EmptyFramesStillEncoded ==
    \A r \in Requests :
        (call[r].begun /\ tensorData[r].kind = "object"
            /\ NumFrames(tensorData[r]) = 0) =>
            /\ call[r].written = <<>>
            /\ call[r].execStarts = 1
            /\ pc[r] \in {"exec", "execDone", "responded"}
            /\ (pc[r] = "responded" /\ call[r].exit # "ok") =>
                  /\ call[r].exit \in {"fail", "nostart"}
                  /\ call[r].result = Thrown("EncodeError")
                  /\ response[r].status = 500

\* C12 witness: over an empty frames array and an empty staging area the
\* encoder was started once, failed, and its error is the outcome.
C12_Witness ==
    \E r \in Requests :
        /\ pc[r] = "responded"
        /\ tensorData[r].kind = "object"
        /\ NumFrames(tensorData[r]) = 0
        /\ call[r].written = <<>>
        /\ call[r].execStarts = 1
        /\ call[r].exit = "fail"
        /\ call[r].result = Thrown("EncodeError")
        /\ \A p \in FramePaths : ~fs[p].exists

\* The encoder process of request r ran (and exited with or without success).
EncoderRan(r) == call[r].exit \in {"ok", "fail"}

\* C13: when one payload is converted twice, one run after the other, the
\* encoder is given the same images both times: as many frame files, with the
\* same header and the same pixel bytes, whatever the first run and earlier
\* requests left in the staging area.
C13_SameEncoderInputBothRuns ==
    (EncoderRan(First) /\ EncoderRan(Second)
        /\ tensorData[First] = tensorData[Second]) =>
        call[First].input = call[Second].input

\* C13 witness: a 1-frame payload over a staging area with a stale image at
\* position 1; the first run's cleanup failed and left its frame behind; both
\* encoder runs were given the frame's image followed by the stale one.
C13_Witness ==
    /\ EncoderRan(First) /\ EncoderRan(Second)
    /\ tensorData[First] = tensorData[Second]
    /\ NumFrames(tensorData[First]) = 1
    /\ call[First].cleanupThrew
    /\ call[First].unlinkTried = <<pathOf[0]>>
    /\ Len(call[Second].input) = 2
    /\ call[Second].input[2] = StaleImage
    /\ call[Second].input[1] # StaleImage
    /\ call[First].input = call[Second].input

\* C14: for every camera label, generateMockTensorData returns exactly 60
\* frames with width 320, height 240 and channels 3; frame k has frame_index
\* k and the same geometry, and its tensor_data has exactly 320 * 240 * 3
\* entries, every one of them assigned: 320 * 240 * 3 assignments from index
\* 0 on, no entry assigned twice, none past the end.
C14_MockPayloadShape ==
    \A c \in 1..Len(mk.results) :
        LET td == mk.results[c]
        IN  /\ td.camera_name = mk.cameraName
            /\ Len(td.frames) = 60
            /\ td.width = 320 /\ td.height = 240 /\ td.channels = 3
            /\ \A k \in 0..59 :
                  LET frame == td.frames[k + 1]
                  IN  /\ frame.frame_index = k
                      /\ frame.width = 320 /\ frame.height = 240
                      /\ frame.channels = 3
                      /\ frame.tensor_data.shape.length = 320 * 240 * 3
                      /\ frame.tensor_data.shape.low = 0
                      /\ frame.tensor_data.shape.assigned = 320 * 240 * 3
                      /\ frame.tensor_data.shape.ascending

\* C14 witness: the payload returned for the empty label: 60 frames, the last
\* with frame_index 59 and 230400 assigned samples.
C14_Witness ==
    /\ mk.cameraName = ""
    /\ Len(mk.results) >= 1
    /\ Len(mk.results[1].frames) = 60
    /\ mk.results[1].frames[60].frame_index = 59
    /\ mk.results[1].frames[60].tensor_data.shape.assigned = 230400
    /\ ~mk.results[1].frames[60].tensor_data.front

\* C15 (as claimed): the timestamps of consecutive frames of one payload are
\* strictly increasing and all differ by the same interval, also when the
\* wall clock advances while the frames are generated.
C15_TimestampsFixedInterval ==
    \A c \in 1..Len(mk.results) :
        LET frames == mk.results[c].frames
        IN  \A k \in 1..(Len(frames) - 1) :
                /\ frames[k + 1].timestamp > frames[k].timestamp
                /\ frames[k + 1].timestamp - frames[k].timestamp
                      = frames[2].timestamp - frames[1].timestamp

\* C16 (as claimed): two calls with the same camera label, made at different
\* times, return payloads equal in every field of every frame.
C16_SameLabelSamePayload ==
    Len(mk.results) >= 2 => mk.results[1] = mk.results[2]

ImageOf(td, i) ==
    ImageFile(frameFile(td.width, td.height, td.channels, td.frames[i].tensor_data))

\* C18: nothing keeps the files of a request whose encoder is running from
\* another request: while the encoder of r runs, a step of q that stages
\* frames writes q's images at the positions it stages, over whatever r staged
\* there, and a step of q that cleans up deletes the files it visits, r's
\* included; both requests use the same paths.
C18_OtherRequestOverwritesAndDeletes ==
    [][\A r, q \in Requests :
          (r # q /\ pc[r] = "exec" /\ pc'[r] = "exec") =>
              /\ (~call[q].begun /\ call'[q].begun
                    /\ tensorData'[q].kind = "object") =>
                    \A i \in 1..Len(call'[q].written) :
                        /\ call'[q].written[i] = pathOf[i - 1]
                        /\ pc'[q] = "exec" =>
                              fs'[pathOf[i - 1]] = ImageOf(tensorData'[q], i)
              /\ (pc[q] # "responded" /\ pc'[q] = "responded") =>
                    \A i \in 1..Len(call'[q].unlinkTried) :
                        (i < Len(call'[q].unlinkTried) \/ ~call'[q].cleanupThrew) =>
                            ~fs'[call'[q].unlinkTried[i]].exists]_vars

\* C18 witness: the encoder of r is running over the 2 frames r staged; q,
\* which staged 2 frames after r, has been answered; r's first frame file has
\* been deleted by q and r's second frame file holds q's image, which q failed
\* to delete.
C18_Witness ==
    \E r, q \in Requests :
        /\ r # q
        /\ pc[r] = "exec"
        /\ call[r].written = <<pathOf[0], pathOf[1]>>
        /\ pc[q] = "responded"
        /\ call[q].unlinkTried = <<pathOf[0], pathOf[1]>>
        /\ call[q].cleanupThrew
        /\ ~fs[pathOf[0]].exists
        /\ fs[pathOf[1]] = ImageOf(tensorData[q], 2)
        /\ fs[pathOf[1]] # ImageOf(tensorData[r], 2)

\* C19: a request is suspended, so that a step of another request can come
\* in between, only at the awaited body parse, the awaited fetch (of the
\* response and of its body) and the awaited encoder run.  Before the encoder
\* is awaited nothing has been staged; while it is awaited all N frame files
\* have been written and neither the output read nor the cleanup has begun;
\* a write, a read or a deletion is never left half-way for another request to
\* see, but is followed in the same step by the rest of its phase.
C19_SuspendedOnlyAtAwaits ==
    \A r \in Requests :
        /\ pc[r] \in {"idle", "json", "fetch", "fetchJson", "exec", "execDone",
                      "responded"}
        /\ pc[r] \in {"idle", "json", "fetch", "fetchJson"} =>
              /\ ~call[r].begun
              /\ call[r].written = <<>>
              /\ call[r].execStarts = 0
        /\ pc[r] \in {"exec", "execDone"} =>
              /\ call[r].begun
              /\ call[r].written
                    = [i \in 1..NumFrames(tensorData[r]) |-> pathOf[i - 1]]
              /\ call[r].execStarts = 1
              /\ call[r].reads = 0
              /\ call[r].unlinkTried = <<>>
              /\ call[r].result = NoOutcome
              /\ response[r] = NoResponse
        /\ (call[r].reads = 1 \/ call[r].unlinkTried # <<>>
              \/ Len(call[r].written) < NumFrames(tensorData[r])) =>
              /\ pc[r] = "responded"
              /\ call[r].result # NoOutcome

\* C19 witness: while the first request awaited its encoder, with its 2
\* frames staged, the second was received, parsed, fetched its payload and
\* staged its own 2 frames over them; both now await their encoders.
C19_Witness ==
    /\ pc[First] = "execDone"
    /\ Len(call[First].written) = 2
    /\ pc[Second] = "exec"
    /\ Len(call[Second].written) = 2
    /\ tensorData[First] # tensorData[Second]
    /\ \A i \in 1..2 : fs[pathOf[i - 1]] = ImageOf(tensorData[Second], i)
    /\ fs[pathOf[0]] # ImageOf(tensorData[First], 1)

\* C20 (as claimed): for every payload, also one whose channels is 0 or
\* negative and whose tensor_data is not empty, the per-pixel loop ends and
\* the request is answered in the end.
C20_EveryRequestAnswered == <>(lp.at = "responded")

\* C21 (as claimed): starting from a filesystem without the temp_frames
\* directory, a call over a well-formed payload with N >= 1 frames writes all
\* N frame files and starts the encoder.
C21_StagingAreaEstablished ==
    \A r \in Requests :
        (~tempDirExists /\ call[r].begun /\ tensorData[r].kind = "object"
            /\ NumFrames(tensorData[r]) >= 1) =>
            /\ Len(call[r].written) = NumFrames(tensorData[r])
            /\ call[r].execStarts = 1

\* C22 (as claimed): every sample that is not a finite number (an infinity,
\* null, or an entry that is missing) is packed as 0, a finite sample below 0
\* as 0 and a finite sample above 255 as 255.  (NaN, which `x || 0` turns
\* into 0, is no value of a parsed JSON payload.)
C22_NonFinitePacksAsZero ==
    px.staged =>
        \A i \in TripleStarts(px.tensor_data, px.channels), c \in 0..2 :
            LET x == At(px.tensor_data, i + c)
            IN  /\ x.t \in {"inf", "null", "undef"} => PackedAt(i, c) = 0
                /\ (x.t = "num" /\ x.h < 0) => PackedAt(i, c) = 0
                /\ (x.t = "num" /\ x.h > MaxByte * Denominator) =>
                      PackedAt(i, c) = MaxByte

\* C23 (as claimed): the cleanup attempts the deletion of every frame file
\* of the range 0..N-1 that exists and of the output file if it exists, also
\* after a deletion has failed: a file that is still there once the call has
\* settled is one whose deletion was attempted.
C23_CleanupAttemptsEveryFile ==
    \A r \in Requests :
        Settled(r) =>
            \A p \in StagedPaths(NumFrames(tensorData[r])) :
                fs[p].exists =>
                    \E i \in 1..Len(call[r].unlinkTried) : call[r].unlinkTried[i] = p

\* C24: within one call the steps come in one order: the encoder is started
\* only once all N frame files have been written, the output file is read
\* only once the encoder has exited with success, and after the encoder has
\* been started the call writes no frame: its later steps leave every frame
\* file as it is or delete it.
C24_StepsInOrder ==
    [][\A r \in Requests :
          pc'[r] # "idle" =>
              /\ call'[r].execStarts >= 1 =>
                    call'[r].written
                      = [i \in 1..NumFrames(tensorData'[r]) |-> pathOf[i - 1]]
              /\ call'[r].exit # "none" => call'[r].execStarts = 1
              /\ call'[r].reads >= 1 =>
                    /\ call'[r].reads = 1
                    /\ call'[r].exit = "ok"
              /\ call[r].execStarts >= 1 =>
                    /\ call'[r].written = call[r].written
                    /\ call'[r].execStarts = call[r].execStarts
                    /\ \A p \in FramePaths : fs'[p] = fs[p] \/ ~fs'[p].exists]_vars

\* C24 witness: a call has written its 2 frames, started the encoder, which
\* exited with success over them, read the output and returned it.
C24_Witness ==
    \E r \in Requests :
        /\ pc[r] = "responded"
        /\ call[r].written = <<pathOf[0], pathOf[1]>>
        /\ call[r].execStarts = 1
        /\ call[r].exit = "ok"
        /\ Len(call[r].input) = 2
        /\ call[r].reads = 1
        /\ call[r].result.kind = "buffer"
        /\ call[r].result.data.frames = call[r].input

\* C25: nothing is retried: a request makes at most one fetch and starts the
\* encoder at most once; when the fetch fails (a rejection, a status outside
\* 200..299, a body that is no JSON) the request is answered with the failure
\* in that step, nothing staged and no encoder started; when the encoder
\* fails, the next step of the request answers with the failure, with no
\* further fetch, write or encoder start.
C25_NothingRetried ==
    [][\A r \in Requests :
          pc'[r] # "idle" =>
              /\ call'[r].fetches <= 1
              /\ call'[r].execStarts <= 1
              /\ (\/ call'[r].fetchStatus = 0
                  \/ call'[r].fetchStatus >= 300
                  \/ (call'[r].fetchStatus > 0 /\ call'[r].fetchStatus < 200)
                  \/ call'[r].jsonFailed) =>
                    /\ pc'[r] = "responded"
                    /\ response'[r].status = 500
                    /\ call'[r].fetches = 1
                    /\ call'[r].written = <<>>
                    /\ call'[r].execStarts = 0
              /\ (call[r].exit \in {"fail", "nostart"} /\ pc[r] = "execDone") =>
                    /\ pc'[r] = "responded"
                    /\ response'[r].status = 500
                    /\ call'[r].fetches = call[r].fetches
                    /\ call'[r].written = call[r].written
                    /\ call'[r].execStarts = 1
                    /\ call'[r].exit = call[r].exit]_vars

\* C25 witness: a request fetched its payload in one attempt, staged 1 frame
\* and started the encoder once; the process could not be started and the
\* request has been answered with the failure.
C25_Witness ==
    \E r \in Requests :
        /\ pc[r] = "responded"
        /\ body[r].tensor_url
        /\ call[r].fetches = 1
        /\ call[r].fetchStatus = 200
        /\ call[r].written = <<pathOf[0]>>
        /\ call[r].execStarts = 1
        /\ call[r].exit = "nostart"
        /\ response[r].status = 500

\* C26 (as claimed): for requests served one after another, earlier ones
\* that failed or whose cleanup failed included, the frame files in the
\* staging directory when a request's encoder is started are exactly that
\* request's frame_000000 .. frame_{N-1}, with that request's content.
C26_OnlyOwnFramesAtEncoderStart ==
    \A r \in Requests :
        pc[r] = "exec" =>
            \A i \in 0..(MaxStaged - 1) :
                IF i < NumFrames(tensorData[r])
                THEN fs[pathOf[i]] = ImageOf(tensorData[r], i + 1)
                ELSE ~fs[pathOf[i]].exists

\* C27 (as claimed): the staged image holds, after its header, as many
\* r, g, b triples as the width * height its header announces, whether
\* tensor_data is shorter than, as long as, or longer than
\* width * height * channels.
C27_TriplesMatchHeader ==
    px.staged =>
        Len(px.ppmContent)
          = Len(ppmHeader(px.width, px.height)) + 3 * px.width * px.height

\* C28 (as claimed): under any interleaving of two overlapping requests, a
\* request that answers with a video returns the output of its own encoder
\* run, made from exactly its own N staged frames and from no frame of the
\* other request.
C28_VideoFromOwnFramesOnly ==
    \A r \in Requests :
        (pc[r] = "responded" /\ response[r].status = 200) =>
            /\ response[r].data.frames
                  = [i \in 1..NumFrames(tensorData[r]) |-> ImageOf(tensorData[r], i).bytes]
            /\ response[r].data.frames = call[r].input

-----------------------------------------------------------------------------
(* DashSpec: the dashboard's playback state (src/app/page.tsx, Home).      *)
(*                                                                         *)
(* ui holds what the last render committed (robotData, activeEpisodeIndex, *)
(* currentFrame, isPlaying), the interval the playback effect set up at    *)
(* that commit together with the episode its callback closed over, and the *)
(* state updates that were queued since and wait for the next render.      *)
(*                                                                         *)
(* A click is rendered, effects included, before the next event is         *)
(* handled, so a click handler is one step with its render.  The callbacks *)
(* of FileReader and setInterval run outside React's event handlers: their *)
(* updates are queued and rendered in a later task, and a callback that is *)
(* due may run before that task.  Clicks and hovers are taken only when no *)
(* update is waiting.                                                      *)
(* playbackSpeed sets the period of the interval only and is left out, as  *)
(* are the task name and the panels.                                       *)

\* Frames of an episode of generateMockData (150 in the code).
MockEpisodeFrames == 3
\* Episodes of an uploaded file, and frames of one of them.
MaxEpisodes == 2
MaxEpisodeFrames == 2
\* Updates waiting for one render.
MaxPending == 2

\* Line 85: generateMockData returns three episodes.
MockEpisodes == 3

\* Lines 45-86: generateMockData, as its episodes' frames_per_episode.
generateMockData == [i \in 1..MockEpisodes |-> MockEpisodeFrames]

\* Line 366: what JSON.parse can yield for a RobotData file, as its
\* episodes' frames_per_episode; the file is not validated, an episode may
\* announce no frame and the file may hold no episode.
Uploads ==
    UNION {[1..n -> 0..MaxEpisodeFrames] : n \in 0..MaxEpisodes}

\* Line 291: currentEpisode is robotData.episodes[activeEpisodeIndex],
\* undefined outside the array.
hasEpisode(episodes, index) == index < Len(episodes)
currentEpisode(episodes, index) == episodes[index + 1]

\* Lines 302-308: the updater the interval callback hands to
\* setCurrentFrame; frames_per_episode is the one of the episode the
\* callback closed over.
tickUpdater(prev, frames_per_episode) ==
    IF prev >= frames_per_episode - 1
    THEN [currentFrame |-> prev, stop |-> TRUE]
    ELSE [currentFrame |-> prev + 1, stop |-> FALSE]

\* One queued update applied by a render: lines 367-369 for an upload,
\* lines 302-308 for a tick.
applyUpdate(st, update) ==
    IF update.op = "upload"
    THEN [st EXCEPT !.robotData = update.data,
                    !.activeEpisodeIndex = 0,
                    !.currentFrame = 0]
    ELSE LET t == tickUpdater(st.currentFrame, update.frames_per_episode)
         IN  [st EXCEPT !.currentFrame = t.currentFrame,
                        !.stop = st.stop \/ t.stop]

\* The queued updates applied in the order they were queued.
RECURSIVE applyUpdates(_, _)
applyUpdates(st, queue) ==
    IF queue = <<>> THEN st
    ELSE applyUpdates(applyUpdate(st, Head(queue)), Tail(queue))

\* Lines 298-317 at a commit: st is the state the render computed.  The
\* reset effect (lines 314-317) runs when activeEpisodeIndex changed and
\* is rendered at once; the playback effect (lines 299-311) leaves an
\* interval exactly when isPlaying and currentEpisode hold, its callback
\* closing over that episode.
commit(st) ==
    LET changed == st.activeEpisodeIndex # ui.activeEpisodeIndex
        playing == st.isPlaying /\ ~st.stop /\ ~changed
        frame   == IF changed THEN 0 ELSE st.currentFrame
    IN  [ui EXCEPT !.robotData = st.robotData,
                   !.activeEpisodeIndex = st.activeEpisodeIndex,
                   !.currentFrame = frame,
                   !.isPlaying = playing,
                   !.interval =
                       IF playing /\ hasEpisode(st.robotData, st.activeEpisodeIndex)
                       THEN [active |-> TRUE,
                             frames_per_episode |->
                                 currentEpisode(st.robotData, st.activeEpisodeIndex)]
                       ELSE NoInterval,
                   !.queue = <<>>]

\* The state a render starts from.
rendered ==
    [robotData |-> ui.robotData, activeEpisodeIndex |-> ui.activeEpisodeIndex,
     currentFrame |-> ui.currentFrame, isPlaying |-> ui.isPlaying, stop |-> FALSE]

\* Line 391: the controls are rendered only with data and an episode.
controlsShown ==
    /\ ui.mounted
    /\ hasEpisode(ui.robotData, ui.activeEpisodeIndex)

\* A click or hover is taken: the user is there, the controls are shown and
\* no update waits for a render.
userActs ==
    /\ ui.user = "present"
    /\ controlsShown
    /\ ui.queue = <<>>

DashIdle ==
    /\ MainIdle
    /\ tempDirExists = TRUE
    /\ px = PxIdle
    /\ nm = NmIdle
    /\ mk = MkIdle
    /\ lp = LpIdle

DashUnchanged ==
    UNCHANGED <<px, nm, mk, lp, fs, tempDirExists, pc, body, tensorData, call, response, faults>>

\* Lines 276-280: the state of the first render.
DashInit ==
    /\ ui = UiIdle
    /\ DashIdle

\* Lines 294-296: the mount effect loads the mock data.
Mount ==
    /\ ~ui.mounted
    /\ ui' = [commit([rendered EXCEPT !.robotData = generateMockData])
                 EXCEPT !.mounted = TRUE]
    /\ DashUnchanged

\* Line 484: the play/pause button.
TogglePlay ==
    /\ userActs
    /\ ui' = commit([rendered EXCEPT !.isPlaying = ~ui.isPlaying])
    /\ DashUnchanged

\* Line 492: the reset button.
ResetFrame ==
    /\ userActs
    /\ ui' = commit([rendered EXCEPT !.currentFrame = 0])
    /\ DashUnchanged

\* Lines 526-530: the pointer moves over the timeline, whose data is
\* chartData (line 341: one entry per frame of currentEpisode).
TimelineHover ==
    /\ userActs
    /\ ~ui.isPlaying
    /\ \E activeTooltipIndex \in
              0..(currentEpisode(ui.robotData, ui.activeEpisodeIndex) - 1) :
          ui' = commit([rendered EXCEPT !.currentFrame = activeTooltipIndex])
    /\ DashUnchanged

\* Line 431: the button of an episode, and with it lines 314-317.
SwitchEpisode ==
    /\ userActs
    /\ \E index \in 0..(Len(ui.robotData) - 1) :
          ui' = commit([rendered EXCEPT !.activeEpisodeIndex = index])
    /\ DashUnchanged

\* Lines 363-369: reader.onload with a file that parses; its three updates
\* wait for the next render.  (A file that does not parse changes nothing,
\* lines 371-374.)  One file is read at a time.
FileLoaded ==
    /\ ui.user = "present"
    /\ controlsShown
    /\ Len(ui.queue) < MaxPending
    /\ \A k \in 1..Len(ui.queue) : ui.queue[k].op # "upload"
    /\ \E data \in Uploads :
          ui' = [ui EXCEPT !.queue =
                    Append(@, [op |-> "upload", data |-> data,
                               frames_per_episode |-> 0])]
    /\ DashUnchanged

\* Lines 301-309: the interval fires; its updater waits for the next render.
Tick ==
    /\ ui.interval.active
    /\ Len(ui.queue) < MaxPending
    /\ ui' = [ui EXCEPT !.queue =
                 Append(@, [op |-> "tick", data |-> <<>>,
                            frames_per_episode |-> ui.interval.frames_per_episode])]
    /\ DashUnchanged

\* React renders the queued updates and runs the effects (lines 298-317).
Render ==
    /\ ui.queue # <<>>
    /\ ui' = commit(applyUpdates(rendered, ui.queue))
    /\ DashUnchanged

\* The user stops acting: from here on only the interval and React run.
UserLeaves ==
    /\ userActs
    /\ ui' = [ui EXCEPT !.user = "away"]
    /\ DashUnchanged

DashNext ==
    \/ Mount
    \/ TogglePlay
    \/ ResetFrame
    \/ TimelineHover
    \/ SwitchEpisode
    \/ FileLoaded
    \/ Tick
    \/ Render
    \/ UserLeaves

DashSpec == DashInit /\ [][DashNext]_vars

\* The interval keeps firing while it is set and React renders what is
\* queued.
PlaySpec ==
    DashInit /\ [][DashNext]_vars /\ WF_vars(Mount) /\ WF_vars(Tick) /\ WF_vars(Render)

LastFrame ==
    IF hasEpisode(ui.robotData, ui.activeEpisodeIndex)
    THEN currentEpisode(ui.robotData, ui.activeEpisodeIndex) - 1
    ELSE -1

\* One step of unattended playback: a render of k queued ticks moves
\* currentFrame on by k while that stays within the episode, never back and
\* never past the last frame; ticks rendered at the last frame stop the
\* playback and leave currentFrame alone; and the playback stops at the
\* last frame only.
UnattendedStep ==
    (ui.user = "away" /\ ui.isPlaying) =>
        LET k == Len(ui.queue) IN
        /\ ui'.currentFrame >= ui.currentFrame
        /\ ui'.currentFrame > ui.currentFrame => ui'.currentFrame <= LastFrame
        /\ (ui'.queue = <<>> /\ ui.currentFrame + k <= LastFrame) =>
              (ui'.currentFrame = ui.currentFrame + k /\ ui'.isPlaying)
        /\ (ui'.queue = <<>> /\ k >= 1 /\ ui.currentFrame = LastFrame) =>
              (ui'.currentFrame = ui.currentFrame /\ ~ui'.isPlaying)
        /\ ~ui'.isPlaying => ui'.currentFrame = LastFrame

====
